---------------------------- MODULE Spec2Model ----------------------------
(***************************************************************************)
(* A model of the YoMo connection engine:                                  *)
(*   - core.Client (src/core/client.go): Connect, the supervisor           *)
(*     runBackground, the pump processStream with its reader goroutine,    *)
(*     WriteFrame in both modes, SetObserveDataTags, RequestStream, Close; *)
(*   - yomoSource.pipe (src/source.go) on top of the engine;               *)
(*   - core.Broker (src/unnamed/part_001): the supervisor task run, its    *)
(*     two routing maps, the copy tasks copyWithLog, and the callers of    *)
(*     Observe and AcceptingStream;                                        *)
(*   - core.Peer (src/unnamed/part_001): SetObserveHandlerWriterTag, Open  *)
(*     and the loop of Observe;                                            *)
(*   - the StreamFrame codec (src/pkg/frame-codec/y3codec).                *)
(* The network is the environment: every call that goes to the network     *)
(* (OpenClientControlStream, Authenticate, RequestStream, AcceptStream,    *)
(* ReadFrame, WriteFrame, OpenUniStream, Read, Write) returns one of the   *)
(* results the call can produce, chosen nondeterministically.              *)
(***************************************************************************)
EXTENDS Naturals, Sequences, FiniteSets

(***************************************************************************)
(* Bounds of the model.                                                    *)
(***************************************************************************)
\* Control streams the network hands out over one run (successful or
\* half-opened attempts of openControlStream).
MaxControlStreams == 3
\* Failed attempts Connect makes before the environment lets one succeed.
MaxConnectErrs == 2
\* Frames the application passes to WriteFrame.
MaxFrames == 2
\* Panics raised by the frame handlers.
MaxPanics == 1
\* Connections, readers and Observe calls the broker sees, and the number of
\* chunks a reader delivers before its end.
NumConns == 2
MaxReaders == 2
MaxObserves == 2
ReaderLen == 2
\* Chunks of the reader that Source.Pipe copies.
PipeLen == 2
\* Calls of Peer.SetObserveHandlerWriterTag, inbound uni-streams a Peer
\* accepts, and chunks an observer writes to its writer.
MaxSetCalls == 2
MaxInbound == 2
HandlerLen == 1

VARIABLES
    \* ---- core.Client ----
    opts,           \* clientOptions: connectUntilSucceed, nonBlockWrite
    clientType,     \* c.clientType
    observeDataTags,      \* c.opts.observeDataTags
    tagsSetAfterConnect,  \* SetObserveDataTags was called after Connect
    handshakes,     \* the HandshakeFrames passed to RequestStream, in order
    connPc,         \* Connect: "idle", "connecting", "returned"
    connRet,        \* what Connect returned: "none", "nil", or the error
    connErrs,       \* errors of the attempts Connect made, in order
    ctxDone,        \* c.ctx is cancelled
    closeCalled,    \* Close() has been called
    eofSeen,        \* handleFrameError has been called with io.EOF
    controlStream,  \* c.controlStream: 0 (nil) or a control stream
    csState,        \* control streams opened so far: "open" or "closed"
    supPc,          \* runBackground: "none", "start", "spawned", "select",
                    \* "reconnect", "backoff", "exited"
    supCS,          \* runBackground's local variable controlStream
    supErr,         \* runBackground's local variable err: "none", "nil", or
                    \* the error of the last openControlStream in the loop
    pumpPc,         \* processStream: "none", "open", "loop", "handling" (in
                    \* c.handleFrame), "hwrite" (the handler is blocked in
                    \* blockWriteFrame), "writing", "done"
    pumpCS,         \* processStream's parameter controlStream
    pumpDS,         \* processStream's dataStream: 0 or a data stream
    pumpHeld,       \* the frame f received from writeFrameChan, or 0
    pumpErr,        \* the error the last pump stopped on, or "none"
    pumpsStarted,   \* go c.processStream(...) statements executed
    dsState,        \* data streams opened so far: "open" or "closed"
    dsCS,           \* the control stream each data stream was accepted on
    dsID,           \* the ID of each data stream: the ID of its Handshake
    rdPc,           \* the goroutine of readFrame, per data stream:
                    \* "reading", "frame", "err", "eof" (blocked sending that
                    \* result), "done"
    rdFrame,        \* per data stream, the frame of the readResult that
                    \* goroutine is sending, or 0
    pumpFrame,      \* the frame c.handleFrame is dispatching, or 0
    wfPending,      \* the frame a blocked blockWriteFrame is sending, or 0
    nextFrame,      \* the next frame the application will write
    accepted,       \* frames for which WriteFrame returned nil
    dropped,        \* frames for which WriteFrame returned an error
    written,        \* frames written to data streams: <<frame, stream>>
    errorfnCalls,   \* invocations of c.errorfn
    panics,         \* handler panics recovered so far
    \* ---- yomoSource.pipe ----
    pipePc,         \* pipe: "idle", "requested" (RequestStream returned a
                    \* stream), "writing" (blocked in WriteFrame), "copying",
                    \* "returned", "panicked"
    pipeDS,         \* pipe's dataStream: 0 or a data stream
    pipeFrame,      \* the DataFrame pipe passed to WriteFrame, with the
                    \* number f the engine knows it by, or <<>>
    pipeCopied,     \* chunks of the reader io.CopyBuffer wrote to dataStream
    pipeFailed,     \* the call of pipe that failed, or "none"
    pipeRet,        \* what pipe returned: "none", "nil", or the error
    \* ---- the caller of Client.Wait ----
    waitPc,         \* Wait: "none", "waiting" (blocked on c.ctx.Done()),
                    \* "returned"
    \* ---- y3codec: a StreamFrame encoded and decoded ----
    wordLimbs,      \* the width of the Go type uint on the platform, in
                    \* 16-bit limbs: 2 (32 bits) or 4 (64 bits)
    codecPc,        \* "idle", "encoded", "decoded"
    codecFrame,     \* the StreamFrame passed to encodeStreamFrame
    codecData,      \* the bytes encodeStreamFrame returned, or <<>>
    codecOut,       \* the frame decodeStreamFrame filled
    \* ---- core.Peer ----
    pOnceDone,      \* p.once has run its function
    observeHandlerWriterTag,  \* p.observeHandlerWriterTag
    pSetCalls,      \* the tags passed to SetObserveHandlerWriterTag, in order
    pPc,            \* Observe: "idle", "observing" (before AcceptUniStream),
                    \* "accepted" (before the test of the writer tag),
                    \* "opened" (p.Open returned a writer), "handling" (in
                    \* observer.Handle), "returned"
    pAccepted,      \* inbound uni-streams accepted so far
    pW,             \* observing's w: 0 (io.Discard) or an outbound stream
    pOut,           \* the outbound uni-streams opened: per stream, the
                    \* inbound stream it was opened for and what was written
                    \* to it, in order: headers <<"tag", t>> and chunks
                    \* <<"data", n>>
    pHandles,       \* the invocations of observer.Handle: inbound stream r,
                    \* writer w, chunks written by the observer
    pErr,           \* the error Observe returned, or "none"
    \* ---- core.Broker ----
    bCtxDone,       \* b.ctx is cancelled
    bRunning,       \* Broker.run has not returned
    observers,      \* run's map observers: tag -> set of connection IDs
    readers,        \* run's map readers: tag -> reader
    bReaders,       \* the readers sent on readerChan so far, each with its
                    \* tag, its state ("parked", "copying", "closed"), the
                    \* number of chunks read from it, and whether it arrived
                    \* with no observer registered and no reader parked
    bStreams,       \* the uni-streams opened on observers: the connection,
                    \* the tag and the chunks written to the stream
    bCopies,        \* the copyWithLog tasks: the source reader, the
                    \* destination streams in MultiWriter order, the state
                    \* ("run", "eof", "failed"), the branch of run that
                    \* started it, and for a fan-out the observers found
                    \* registered and whether an OpenUniStream failed
    bObserveCalls,  \* Broker.Observe calls received by run
    bMatched,       \* per tag, the connections that were registered when a
                    \* reader was matched and have not called Observe since
    bBlocked        \* the callers blocked sending on observerChan or on
                    \* readerChan with no receiver: the call and its tag

clientVars ==
    <<opts, clientType, observeDataTags, tagsSetAfterConnect, handshakes,
      connPc, connRet, connErrs, ctxDone, closeCalled, eofSeen,
      controlStream, csState, supPc, supCS, supErr, pumpPc, pumpCS, pumpDS,
      pumpHeld, pumpFrame, pumpErr, pumpsStarted, dsState, dsCS, dsID, rdPc,
      rdFrame, wfPending, nextFrame,
      accepted, dropped, written, errorfnCalls, panics, pipePc, pipeDS,
      pipeFrame, pipeCopied, pipeFailed, pipeRet>>

pipeVars == <<pipePc, pipeDS, pipeFrame, pipeCopied, pipeFailed, pipeRet>>
idVars == <<clientType, observeDataTags, tagsSetAfterConnect>>
connVars == <<connPc, connRet, connErrs>>
supVars == <<supPc, supCS, supErr>>
pumpVars ==
    <<pumpPc, pumpCS, pumpDS, pumpHeld, pumpFrame, pumpErr, pumpsStarted>>
dsVars == <<dsState, dsCS, dsID, rdPc, rdFrame>>
wfVars == <<wfPending, nextFrame, accepted, dropped>>

brokerVars ==
    <<bCtxDone, bRunning, observers, readers, bReaders, bStreams, bCopies,
      bObserveCalls, bMatched, bBlocked>>

\* The state no goroutine of the engine or of the broker writes.
codecVars == <<wordLimbs, codecPc, codecFrame, codecData, codecOut>>
peerVars ==
    <<pOnceDone, observeHandlerWriterTag, pSetCalls, pPc, pAccepted, pW, pOut,
      pHandles, pErr>>
libVars == <<codecVars, peerVars>>
outerVars == <<waitPc, libVars>>

vars == <<clientVars, brokerVars, outerVars>>

(***************************************************************************)
(* Errors.                                                                 *)
(***************************************************************************)
ErrAuthenticateFailed == "ErrAuthenticateFailed"
ErrNetwork == "ErrNetwork"
EOF == "EOF"
ErrNoObserveTags == "ErrNoObserveTags"

(***************************************************************************)
(* The identity of the engine.  name and clientID are set by NewClient and *)
(* assigned nowhere else.                                                  *)
(***************************************************************************)
ClientTypeSource == "Source"
ClientTypeStreamFunction == "StreamFunction"
ClientTypes == {ClientTypeSource, ClientTypeStreamFunction}
name == "app"
clientID == "client-id"

\* The tag lists the options or SetObserveDataTags can install.
TagSets == {{}, {1}, {1, 2}}

(***************************************************************************)
(* NewClient: the state after construction.                                *)
(***************************************************************************)
NewClient ==
    /\ opts \in [connectUntilSucceed : BOOLEAN, nonBlockWrite : BOOLEAN]
    /\ clientType \in ClientTypes
    /\ observeDataTags \in TagSets
    /\ tagsSetAfterConnect = FALSE
    /\ handshakes = <<>>
    /\ connPc = "idle"
    /\ connRet = "none"
    /\ connErrs = <<>>
    /\ ctxDone = FALSE
    /\ closeCalled = FALSE
    /\ eofSeen = FALSE
    /\ controlStream = 0
    /\ csState = <<>>
    /\ supPc = "none"
    /\ supCS = 0
    /\ supErr = "none"
    /\ pumpPc = "none"
    /\ pumpCS = 0
    /\ pumpDS = 0
    /\ pumpHeld = 0
    /\ pumpFrame = 0
    /\ pumpErr = "none"
    /\ pumpsStarted = 0
    /\ dsState = <<>>
    /\ dsCS = <<>>
    /\ dsID = <<>>
    /\ rdPc = <<>>
    /\ rdFrame = <<>>
    /\ wfPending = 0
    /\ nextFrame = 1
    /\ accepted = {}
    /\ dropped = {}
    /\ written = <<>>
    /\ errorfnCalls = 0
    /\ panics = 0
    /\ pipePc = "idle"
    /\ pipeDS = 0
    /\ pipeFrame = <<>>
    /\ pipeCopied = 0
    /\ pipeFailed = "none"
    /\ pipeRet = "none"
    /\ waitPc = "none"

(***************************************************************************)
(* openControlStream: OpenClientControlStream, then Authenticate.  It      *)
(* returns (stream, error):                                                *)
(*   "ok"       a new authenticated stream, nil                            *)
(*   "dial"     nil, a network error (OpenClientControlStream failed)      *)
(*   "authfail" the new stream, ErrAuthenticateFailed                      *)
(*   "autherr"  the new stream, a network error (Authenticate failed)      *)
(***************************************************************************)
openControlStream ==
    {"dial"} \cup
    (IF Len(csState) < MaxControlStreams THEN {"ok", "authfail", "autherr"}
     ELSE {})

ErrOf(o) ==
    CASE o = "ok" -> "nil"
      [] o = "authfail" -> ErrAuthenticateFailed
      [] OTHER -> ErrNetwork

\* The stream openControlStream returns with outcome o: the next stream, or nil.
StreamOf(o) == IF o = "dial" THEN 0 ELSE Len(csState) + 1

\* The control streams after openControlStream returned with outcome o.
Opened(o) == IF o = "dial" THEN csState ELSE Append(csState, "open")

\* cleanStream: close cs unless it is nil.
cleanStream(states, cs) ==
    IF cs = 0 THEN states ELSE [states EXCEPT ![cs] = "closed"]

\* go c.processStream(cs, reconnection): a new pump about to open its stream.
StartPump(cs) ==
    /\ pumpPc' = "open"
    /\ pumpCS' = cs
    /\ pumpDS' = 0
    /\ pumpHeld' = 0
    /\ pumpFrame' = 0
    /\ pumpErr' = "none"
    /\ pumpsStarted' = pumpsStarted + 1

(***************************************************************************)
(* Connect.                                                                *)
(***************************************************************************)
\* A Connect that retries after every error, ErrAuthenticateFailed included.
ConnectRetriesAlways(err) == opts.connectUntilSucceed

\* Connect goes back to the label connect after error err.
ConnectRetries(err) ==
    opts.connectUntilSucceed /\ err # ErrAuthenticateFailed

ConnectCall ==
    /\ connPc = "idle"
    /\ IF clientType = ClientTypeStreamFunction /\ observeDataTags = {}
       THEN connPc' = "returned" /\ connRet' = ErrNoObserveTags
       ELSE connPc' = "connecting" /\ connRet' = connRet
    /\ UNCHANGED <<brokerVars, outerVars, pipeVars, opts, idVars, handshakes, connErrs, ctxDone, closeCalled, eofSeen,
                   controlStream, csState, supPc, supCS, supErr, pumpPc, pumpCS,
                   pumpDS, pumpHeld, pumpFrame, pumpErr, pumpsStarted, dsState,
                   dsCS, dsID, rdPc, rdFrame, wfPending, nextFrame, accepted,
                   dropped, written,
                   errorfnCalls, panics>>

\* One pass from the label connect: an attempt, then return or retry.
ConnectAttempt ==
    /\ connPc = "connecting"
    /\ \E o \in openControlStream :
        /\ csState' = Opened(o)
        /\ IF o = "ok"
           THEN /\ controlStream' = StreamOf(o)
                /\ supPc' = "start"
                /\ supCS' = StreamOf(o)
                /\ supErr' = supErr
                /\ connPc' = "returned"
                /\ connRet' = "nil"
                /\ connErrs' = connErrs
           ELSE /\ Len(connErrs) < MaxConnectErrs
                /\ connErrs' = Append(connErrs, ErrOf(o))
                /\ IF ConnectRetries(ErrOf(o))
                   THEN connPc' = connPc /\ connRet' = connRet
                   ELSE connPc' = "returned" /\ connRet' = ErrOf(o)
                /\ UNCHANGED <<controlStream, supPc, supCS, supErr>>
    /\ UNCHANGED <<brokerVars, outerVars, pipeVars, opts, idVars, handshakes, ctxDone, closeCalled, eofSeen, pumpPc, pumpCS,
                   pumpDS, pumpHeld, pumpFrame, pumpErr, pumpsStarted, dsState,
                   dsCS, dsID, rdPc, rdFrame, wfPending, nextFrame, accepted,
                   dropped, written,
                   errorfnCalls, panics>>

(***************************************************************************)
(* handleFrameError(err, reconnection), for err # nil: the error goes to   *)
(* errorfn; io.EOF cancels the engine context; any other error is offered  *)
(* on the unbuffered channel reconnection by a select with a default, so   *)
(* it is received only if runBackground is blocked in its select and no    *)
(* other case of that select has fired.                                    *)
(***************************************************************************)
\* A handler that treats io.EOF as any other error: no cancellation, and the
\* reconnection signal is offered.
handleFrameErrorReconnects(err) ==
    /\ errorfnCalls' = errorfnCalls + 1
    /\ ctxDone' = ctxDone
    /\ eofSeen' = (eofSeen \/ err = EOF)
    /\ supPc' = IF supPc = "select" /\ ~ctxDone THEN "reconnect" ELSE supPc

\* A handler that would cancel the engine context on every error.
handleFrameErrorCancels(err) ==
    /\ errorfnCalls' = errorfnCalls + 1
    /\ ctxDone' = TRUE
    /\ eofSeen' = (eofSeen \/ err = EOF)
    /\ supPc' = supPc

handleFrameError(err) ==
    /\ errorfnCalls' = errorfnCalls + 1
    /\ IF err = EOF
       THEN /\ ctxDone' = TRUE
            /\ eofSeen' = TRUE
            /\ supPc' = supPc
       ELSE /\ ctxDone' = ctxDone
            /\ eofSeen' = eofSeen
            /\ supPc' = IF supPc = "select" /\ ~ctxDone THEN "reconnect"
                        ELSE supPc

\* processStream returns after handleFrameError(err); the deferred
\* dataStream.Close() runs if the data stream was opened.
PumpStops(err) ==
    /\ pumpPc' = "done"
    /\ pumpErr' = err
    /\ pumpHeld' = 0
    /\ dsState' = IF pumpDS = 0 THEN dsState
                  ELSE [dsState EXCEPT ![pumpDS] = "closed"]
    /\ UNCHANGED <<pumpCS, pumpDS, pumpFrame, pumpsStarted>>

\* A stream of the connection of control stream cs can still carry frames.
Usable(cs) == cs # 0 /\ csState[cs] = "open"

(***************************************************************************)
(* runBackground.                                                          *)
(***************************************************************************)
\* Lines 110-116: load c.ControlStream() and start the first pump.
SupStart ==
    /\ supPc = "start"
    /\ supCS' = controlStream
    /\ supErr' = supErr
    /\ StartPump(controlStream)
    /\ supPc' = "spawned"
    /\ UNCHANGED <<brokerVars, outerVars, pipeVars, opts, idVars, handshakes, connVars, ctxDone, closeCalled, eofSeen,
                   controlStream, csState, dsVars, wfVars, written,
                   errorfnCalls, panics>>

\* The supervisor reaches its select and blocks there.
SupSelect ==
    /\ supPc = "spawned"
    /\ supPc' = "select"
    /\ UNCHANGED <<brokerVars, outerVars, pipeVars, opts, idVars, handshakes, connVars, ctxDone, closeCalled, eofSeen,
                   controlStream, csState, supCS, supErr, pumpVars, dsVars, wfVars,
                   written, errorfnCalls, panics>>

\* case <-c.ctx.Done(): cleanStream(controlStream, nil); return
SupCtxDone ==
    /\ supPc = "select"
    /\ ctxDone
    /\ csState' = cleanStream(csState, supCS)
    /\ supPc' = "exited"
    /\ UNCHANGED <<brokerVars, outerVars, pipeVars, opts, idVars, handshakes, connVars, ctxDone, closeCalled, eofSeen,
                   controlStream, supCS, supErr, pumpVars, dsVars, wfVars, written,
                   errorfnCalls, panics>>

\* A reconnection that would give up after any error.
ReconnectFatalAlways(err) == err # "nil"

\* if errors.As(err, new(ErrAuthenticateFailed)): the supervisor gives up.
ReconnectFatal(err) == err = ErrAuthenticateFailed

\* One pass from the label reconnect.
SupReconnect ==
    /\ supPc = "reconnect"
    /\ \E o \in openControlStream :
        /\ supCS' = StreamOf(o)
        /\ supErr' = ErrOf(o)
        /\ IF o = "ok"
           THEN /\ csState' = Opened(o)
                /\ controlStream' = StreamOf(o)
                /\ StartPump(StreamOf(o))
                /\ supPc' = "spawned"
           ELSE /\ IF ReconnectFatal(ErrOf(o))
                   THEN /\ csState' = cleanStream(Opened(o), StreamOf(o))
                        /\ supPc' = "exited"
                   ELSE /\ csState' = Opened(o)
                        /\ supPc' = "backoff"
                /\ UNCHANGED <<controlStream, pumpVars>>
    /\ UNCHANGED <<brokerVars, outerVars, pipeVars, opts, idVars, handshakes, connVars, ctxDone, closeCalled, eofSeen, dsVars,
                   wfVars, written, errorfnCalls, panics>>

\* time.Sleep(time.Second); goto reconnect
SupBackoff ==
    /\ supPc = "backoff"
    /\ supPc' = "reconnect"
    /\ UNCHANGED <<brokerVars, outerVars, pipeVars, opts, idVars, handshakes, connVars, ctxDone, closeCalled, eofSeen,
                   controlStream, csState, supCS, supErr, pumpVars, dsVars, wfVars,
                   written, errorfnCalls, panics>>

(***************************************************************************)
(* processStream and the goroutine of readFrame.                           *)
(***************************************************************************)
\* A handshake that would carry a fresh client ID, as it carries a fresh ID.
HandshakeFrameFreshClient ==
    [Name |-> name, ID |-> Len(handshakes) + 1,
     ClientID |-> Len(handshakes) + 1, ClientType |-> clientType,
     ObserveDataTags |-> observeDataTags]

\* A handshake that would declare every tag, whatever the options hold.
HandshakeFrameAllTags ==
    [Name |-> name, ID |-> Len(handshakes) + 1, ClientID |-> clientID,
     ClientType |-> clientType, ObserveDataTags |-> UNION TagSets]

\* The HandshakeFrame openDataStream builds; ID is id.New(), a fresh value.
HandshakeFrame ==
    [Name |-> name, ID |-> Len(handshakes) + 1, ClientID |-> clientID,
     ClientType |-> clientType, ObserveDataTags |-> observeDataTags]

\* openDataStream: the Handshake on the control stream, then AcceptStream.
openDataStream(cs) ==
    {ErrNetwork, EOF} \cup (IF Usable(cs) THEN {"nil"} ELSE {})

PumpOpenDataStream ==
    /\ pumpPc = "open"
    /\ handshakes' = Append(handshakes, HandshakeFrame)
    /\ \E err \in openDataStream(pumpCS) :
        IF err = "nil"
        THEN /\ dsState' = Append(dsState, "open")
             /\ dsCS' = Append(dsCS, pumpCS)
             /\ dsID' = Append(dsID, HandshakeFrame.ID)
             /\ rdPc' = Append(rdPc, "reading")
             /\ rdFrame' = Append(rdFrame, 0)
             /\ pumpDS' = Len(dsState) + 1
             /\ pumpPc' = "loop"
             /\ UNCHANGED <<pumpCS, pumpHeld, pumpFrame, pumpErr, pumpsStarted, ctxDone,
                            eofSeen, supPc, errorfnCalls>>
        ELSE /\ handleFrameError(err)
             /\ PumpStops(err)
             /\ UNCHANGED <<dsCS, dsID, rdPc, rdFrame>>
    /\ UNCHANGED <<brokerVars, outerVars, pipeVars, opts, idVars, connVars, closeCalled, controlStream, csState,
                   supCS, supErr, wfVars, written, panics>>

\* The tags of the DataFrames the sources write.
DataTags == {1, 2}

\* The Handshake that requested data stream d.
HandshakeOf(d) == handshakes[dsID[d]]

\* The tags of the BackflowFrames the server sends back to a source; the
\* engine does not look at them, so one tag stands for all.
BackflowTags == {1}

\* The frames the server forwards on data stream d.  Its routing table holds
\* the ObserveDataTags of the Handshake of each data stream: a stream
\* function is sent the DataFrames of the tags it declared, and a source the
\* BackflowFrames that answer its own frames.
Forwarded(d) ==
    IF HandshakeOf(d).ClientType = ClientTypeStreamFunction
    THEN {[type |-> "DataFrame", Tag |-> t] :
             t \in DataTags \cap HandshakeOf(d).ObserveDataTags}
    ELSE {[type |-> "BackflowFrame", Tag |-> t] : t \in BackflowTags}

\* handleFrame(f): the handler the frame is dispatched to, by its type alone.
handleFrame(f) ==
    CASE f.type = "DataFrame" -> "processor"
      [] f.type = "BackflowFrame" -> "receiver"
      [] OTHER -> "none"

\* dataStream.ReadFrame() in the reader goroutine of data stream d.
ReadFrame(d) ==
    {"err"} \cup
    (IF dsState[d] = "open" /\ Usable(dsCS[d]) THEN {"frame", "eof"} ELSE {})

\* The reader goroutine reads and then blocks sending the result on readChan.
ReaderRead(d) ==
    /\ rdPc[d] = "reading"
    /\ \E res \in ReadFrame(d) :
        /\ rdPc' = [rdPc EXCEPT ![d] = res]
        /\ IF res = "frame"
           THEN \E f \in Forwarded(d) : rdFrame' = [rdFrame EXCEPT ![d] = f]
           ELSE rdFrame' = rdFrame
    /\ UNCHANGED <<brokerVars, outerVars, pipeVars, opts, idVars, handshakes, connVars, ctxDone, closeCalled, eofSeen,
                   controlStream, csState, supVars, pumpVars, dsState, dsCS, dsID,
                   wfVars, written, errorfnCalls, panics>>

\* case result := <-readFrameChan: an error stops the pump; a frame is
\* dispatched by c.handleFrame, in the goroutine of the pump.
PumpReadResult ==
    /\ pumpPc = "loop"
    /\ rdPc[pumpDS] \in {"frame", "err", "eof"}
    /\ IF rdPc[pumpDS] = "frame"
       THEN /\ pumpPc' = "handling"
            /\ pumpFrame' = rdFrame[pumpDS]
            /\ rdPc' = [rdPc EXCEPT ![pumpDS] = "reading"]
            /\ rdFrame' = [rdFrame EXCEPT ![pumpDS] = 0]
            /\ UNCHANGED <<pumpCS, pumpDS, pumpHeld, pumpErr, pumpsStarted,
                           dsState, ctxDone, eofSeen, supPc, errorfnCalls>>
       ELSE /\ handleFrameError(IF rdPc[pumpDS] = "eof" THEN EOF
                                ELSE ErrNetwork)
            /\ PumpStops(IF rdPc[pumpDS] = "eof" THEN EOF ELSE ErrNetwork)
            /\ rdPc' = [rdPc EXCEPT ![pumpDS] = "done"]
            /\ rdFrame' = rdFrame
    /\ UNCHANGED <<brokerVars, outerVars, pipeVars, opts, idVars, handshakes, connVars, closeCalled, controlStream, csState,
                   supCS, supErr, dsCS, dsID, wfVars, written, panics>>

\* The handler (c.processor or c.receiver) calls WriteFrame on its engine,
\* as serverless Context.Write does.  The pump is in the handler and not in
\* its select: nonBlockWriteFrame takes its default case, and
\* blockWriteFrame blocks sending on writeFrameChan.
HandlerWriteFrame ==
    /\ pumpPc = "handling"
    /\ nextFrame <= MaxFrames
    /\ wfPending = 0
    /\ nextFrame' = nextFrame + 1
    /\ IF opts.nonBlockWrite
       THEN /\ dropped' = dropped \cup {nextFrame}
            /\ UNCHANGED <<wfPending, pumpPc>>
       ELSE /\ wfPending' = nextFrame
            /\ pumpPc' = "hwrite"
            /\ UNCHANGED dropped
    /\ UNCHANGED <<brokerVars, outerVars, pipeVars, opts, idVars, handshakes, connVars, ctxDone, closeCalled, eofSeen,
                   controlStream, csState, supVars, pumpCS, pumpDS, pumpHeld,
                   pumpFrame, pumpErr, pumpsStarted, dsVars, accepted, written,
                   errorfnCalls, panics>>

\* A recovery that would report the panic to errorfn twice.
RecoverPanicTwice(n) == n + 2

\* A panic of the handler passes its error to errorfn once.
RecoverPanic(n) == n + 1

\* The handler returns or panics; the deferred recover passes a panic to
\* errorfn, and the pump goes back to its select.
HandlerReturn ==
    /\ pumpPc = "handling"
    /\ pumpPc' = "loop"
    /\ pumpFrame' = 0
    /\ \E panic \in BOOLEAN :
        IF panic
        THEN /\ panics < MaxPanics
             /\ panics' = panics + 1
             /\ errorfnCalls' = RecoverPanic(errorfnCalls)
        ELSE UNCHANGED <<panics, errorfnCalls>>
    /\ UNCHANGED <<brokerVars, outerVars, pipeVars, opts, idVars, handshakes, connVars, ctxDone, closeCalled, eofSeen,
                   controlStream, csState, supVars, pumpCS, pumpDS, pumpHeld,
                   pumpErr, pumpsStarted, dsVars, wfVars, written>>

\* case f := <-c.writeFrameChan, with a blocked blockWriteFrame as the sender:
\* the send completes and WriteFrame returns nil.
PumpRecvFrame ==
    /\ pumpPc = "loop"
    /\ wfPending # 0
    /\ pumpHeld' = wfPending
    /\ pumpPc' = "writing"
    /\ accepted' = accepted \cup {wfPending}
    /\ wfPending' = 0
    /\ UNCHANGED <<brokerVars, outerVars, pipeVars, opts, idVars, handshakes, connVars, ctxDone, closeCalled, eofSeen,
                   controlStream, csState, supVars, pumpCS, pumpDS, pumpFrame,
                   pumpErr, pumpsStarted, dsVars, nextFrame, dropped, written,
                   errorfnCalls, panics>>

\* A stream that would deliver the frame written last ahead of the others.
StreamWriteAhead(w, f, d) == <<<<f, d>>>> \o w

\* A successful dataStream.WriteFrame(f) on data stream d: the frame follows
\* those written before it.
StreamWrite(w, f, d) == Append(w, <<f, d>>)

\* dataStream.WriteFrame(f) in the data stream d of the pump.
WriteFrameResults(d) ==
    {ErrNetwork} \cup
    (IF dsState[d] = "open" /\ Usable(dsCS[d]) THEN {"nil"} ELSE {})

\* if err := dataStream.WriteFrame(f); err != nil { handleFrameError; return }
PumpWriteFrame ==
    /\ pumpPc = "writing"
    /\ \E err \in WriteFrameResults(pumpDS) :
        IF err = "nil"
        THEN /\ written' = StreamWrite(written, pumpHeld, pumpDS)
             /\ pumpHeld' = 0
             /\ pumpPc' = "loop"
             /\ UNCHANGED <<pumpCS, pumpDS, pumpFrame, pumpErr, pumpsStarted, dsState,
                            ctxDone, eofSeen, supPc, errorfnCalls>>
        ELSE /\ handleFrameError(err)
             /\ PumpStops(err)
             /\ UNCHANGED written
    /\ UNCHANGED <<brokerVars, outerVars, pipeVars, opts, idVars, handshakes, connVars, closeCalled, controlStream, csState,
                   supCS, supErr, dsCS, dsID, rdPc, rdFrame, wfVars, panics>>

(***************************************************************************)
(* The application: WriteFrame and Close.                                  *)
(***************************************************************************)
\* A pump that would take a frame from writeFrameChan from inside a handler.
PumpReadyOrHandling == pumpPc \in {"loop", "handling"}

\* A pump that would take a frame from writeFrameChan before its data stream
\* is opened.
PumpReadyBeforeOpen == pumpPc \in {"open", "loop"}

\* The pump is blocked in its select, where `case f := <-c.writeFrameChan`
\* can receive: the only receiver a send on the unbuffered channel can meet.
PumpReady == pumpPc = "loop"

\* WriteFrame(f): nonBlockWriteFrame hands f over only to a pump that is
\* waiting in its select; blockWriteFrame blocks sending f.
WriteFrameCall ==
    /\ nextFrame <= MaxFrames
    /\ wfPending = 0
    /\ nextFrame' = nextFrame + 1
    /\ IF opts.nonBlockWrite
       THEN IF PumpReady
            THEN /\ pumpHeld' = nextFrame
                 /\ pumpPc' = "writing"
                 /\ accepted' = accepted \cup {nextFrame}
                 /\ UNCHANGED <<wfPending, dropped>>
            ELSE /\ dropped' = dropped \cup {nextFrame}
                 /\ UNCHANGED <<wfPending, accepted, pumpHeld, pumpPc>>
       ELSE /\ wfPending' = nextFrame
            /\ UNCHANGED <<accepted, dropped, pumpHeld, pumpPc>>
    /\ UNCHANGED <<opts, idVars, handshakes, connVars, ctxDone, closeCalled,
                   eofSeen, controlStream, csState, supVars, pumpCS, pumpDS,
                   pumpFrame, pumpErr, pumpsStarted, dsVars, written, errorfnCalls,
                   panics>>

\* The application calls WriteFrame.
WriteFrame == WriteFrameCall /\ UNCHANGED <<brokerVars, outerVars, pipeVars>>

(***************************************************************************)
(* Client.RequestStream and yomoSource.pipe.                               *)
(***************************************************************************)
\* RequestStream with openDataStream returning err: a Handshake is sent on
\* the current control stream; on success a further data stream exists, for
\* which no reader goroutine is started; an error other than io.EOF goes to
\* errorfn.  (With io.EOF the stream returned is nil and RequestStream calls
\* its Close: see PipeRequestStream.)
RequestStream(err) ==
    /\ handshakes' = Append(handshakes, HandshakeFrame)
    /\ IF err = "nil"
       THEN /\ dsState' = Append(dsState, "open")
            /\ dsCS' = Append(dsCS, controlStream)
            /\ dsID' = Append(dsID, HandshakeFrame.ID)
            /\ rdPc' = Append(rdPc, "none")
            /\ rdFrame' = Append(rdFrame, 0)
            /\ UNCHANGED errorfnCalls
       ELSE /\ UNCHANGED dsVars
            /\ errorfnCalls' = IF err = EOF THEN errorfnCalls
                                ELSE errorfnCalls + 1

\* The Y3 tags of the three fields of a StreamFrame, and the size of the
\* copy buffer of pipe.
tagStreamClientID == 1
tagStreamID == 2
tagStreamChunkSize == 3
PipeBufSize == 1024

\* Go integers are held as their 16-bit limbs, the most significant first:
\* a uint32 or int32 has 2 limbs, an int64 has 4, a uint has 2 or 4.
Limb == 256 * 256

\* The natural number n < 2^31 in a word of k limbs.
Word(n, k) ==
    [i \in 1..k |-> IF i = k THEN n % Limb
                    ELSE IF i = k - 1 THEN n \div Limb ELSE 0]

\* uint32(x): the low 32 bits of x.
uint32(x) == SubSeq(x, Len(x) - 1, Len(x))

\* The uint of k limbs that holds the 32-bit unsigned value v.
ZeroExtend(v, k) ==
    [i \in 1..k |-> IF i <= k - 2 THEN 0 ELSE v[i - (k - 2)]]

\* uint(v) for the int32 v, in a uint of k limbs: the sign bit of v fills the
\* limbs above it.
uint(v, k) ==
    [i \in 1..k |-> IF i <= k - 2
                    THEN (IF v[1] >= Limb \div 2 THEN Limb - 1 ELSE 0)
                    ELSE v[i - (k - 2)]]

\* encodeStreamFrame: a node packet of the frame's type holding one
\* primitive packet per field, each its tag and its value: the string ID,
\* the int64 StreamID, and ChunkSize converted to uint32 (SetUInt32Value
\* writes the 32 bits of its argument).
encodeStreamFrame(f) ==
    <<"StreamFrame",
      <<tagStreamClientID, f.ID>>,
      <<tagStreamID, f.StreamID>>,
      <<tagStreamChunkSize, uint32(f.ChunkSize)>>>>

\* nodeBlock.PrimitivePackets: the packets of the node data, by tag.
PrimitivePackets(data) ==
    [t \in {data[i][1] : i \in 2..Len(data)} |->
        (CHOOSE i \in 2..Len(data) : data[i][1] = t)]

\* decodeStreamFrame(data, f) on a platform whose uint has k limbs: each
\* field whose packet is present is assigned; ChunkSize is read with ToInt32,
\* which yields the 32 bits as a signed integer, and converted to uint.
decodeStreamFrame(data, f, k) ==
    LET ps == PrimitivePackets(data)
        has(t) == t \in DOMAIN ps
        val(t) == data[ps[t]][2]
    IN  [ID |-> IF has(tagStreamClientID) THEN val(tagStreamClientID)
                ELSE f.ID,
         StreamID |-> IF has(tagStreamID) THEN val(tagStreamID)
                      ELSE f.StreamID,
         ChunkSize |-> IF has(tagStreamChunkSize)
                       THEN uint(val(tagStreamChunkSize), k)
                       ELSE f.ChunkSize]

\* The DataFrame pipe builds for the data stream d it was given.
PipeDataFrame(d) ==
    [Streamed |-> TRUE,
     Payload |-> encodeStreamFrame(
         [ID |-> dsID[d], StreamID |-> Word(d, 4),
          ChunkSize |-> Word(PipeBufSize, 4)])]

\* The error of nonBlockWriteFrame.
ErrLostConnection == "yomo: client has lost connection"

\* pipe calls RequestStream on a connected engine.  When openDataStream
\* returns (nil, io.EOF), RequestStream calls Close on the nil stream: a nil
\* dereference, and neither RequestStream nor pipe returns.
PipeRequestStream ==
    /\ pipePc = "idle"
    /\ connRet = "nil"
    /\ \E err \in openDataStream(controlStream) :
        /\ RequestStream(err)
        /\ IF err = "nil"
           THEN /\ pipePc' = "requested"
                /\ pipeDS' = Len(dsState) + 1
                /\ UNCHANGED <<pipeFailed, pipeRet>>
           ELSE /\ pipePc' = IF err = EOF THEN "panicked" ELSE "returned"
                /\ pipeFailed' = "RequestStream"
                /\ pipeRet' = IF err = EOF THEN pipeRet ELSE err
                /\ UNCHANGED pipeDS
    /\ UNCHANGED <<brokerVars, outerVars, opts, idVars, connVars, ctxDone, closeCalled,
                   eofSeen, controlStream, csState, supVars, pumpVars, wfVars,
                   written, panics, pipeFrame, pipeCopied>>

\* pipe encodes the StreamFrame of its stream into a DataFrame and passes
\* it to WriteFrame; in non-blocking mode WriteFrame returns at once.
PipeWriteFrame ==
    /\ pipePc = "requested"
    /\ WriteFrameCall
    /\ pipeFrame' = [f |-> nextFrame, frame |-> PipeDataFrame(pipeDS)]
    /\ IF opts.nonBlockWrite
       THEN IF PumpReady
            THEN /\ pipePc' = "copying"
                 /\ UNCHANGED <<pipeFailed, pipeRet>>
            ELSE /\ pipePc' = "returned"
                 /\ pipeFailed' = "WriteFrame"
                 /\ pipeRet' = ErrLostConnection
       ELSE /\ pipePc' = "writing"
            /\ UNCHANGED <<pipeFailed, pipeRet>>
    /\ UNCHANGED <<brokerVars, outerVars, pipeDS, pipeCopied>>

\* The pump has received the frame: blockWriteFrame returns nil.
PipeWriteReturned ==
    /\ pipePc = "writing"
    /\ wfPending = 0
    /\ pipePc' = "copying"
    /\ UNCHANGED <<brokerVars, outerVars, opts, idVars, handshakes, connVars, ctxDone,
                   closeCalled, eofSeen, controlStream, csState, supVars,
                   pumpVars, dsVars, wfVars, written, errorfnCalls, panics,
                   pipeDS, pipeFrame, pipeCopied, pipeFailed, pipeRet>>

\* One round of io.CopyBuffer(dataStream, stream, buf): a chunk is written to
\* the stream; at the end of the reader io.CopyBuffer returns nil.
PipeCopy ==
    /\ pipePc = "copying"
    /\ IF pipeCopied < PipeLen
       THEN \E err \in WriteFrameResults(pipeDS) :
                IF err = "nil"
                THEN /\ pipeCopied' = pipeCopied + 1
                     /\ UNCHANGED <<pipePc, pipeFailed, pipeRet>>
                ELSE /\ pipePc' = "returned"
                     /\ pipeFailed' = "Copy"
                     /\ pipeRet' = err
                     /\ UNCHANGED pipeCopied
       ELSE /\ pipePc' = "returned"
            /\ pipeRet' = "nil"
            /\ UNCHANGED <<pipeCopied, pipeFailed>>
    /\ UNCHANGED <<brokerVars, outerVars, opts, idVars, handshakes, connVars, ctxDone,
                   closeCalled, eofSeen, controlStream, csState, supVars,
                   pumpVars, dsVars, wfVars, written, errorfnCalls, panics,
                   pipeDS, pipeFrame>>

\* SetObserveDataTags(tag...): c.opts.observeDataTags = tag
SetObserveDataTags(tags) ==
    /\ observeDataTags' = tags
    /\ tagsSetAfterConnect' = (tagsSetAfterConnect \/ connPc # "idle")
    /\ UNCHANGED <<brokerVars, outerVars, pipeVars, opts, clientType, handshakes, connVars,
                   ctxDone, closeCalled, eofSeen, controlStream, csState,
                   supVars, pumpVars, dsVars, wfVars, written, errorfnCalls,
                   panics>>

\* Close(): c.ctxCancel()
Close ==
    /\ ~closeCalled
    /\ closeCalled' = TRUE
    /\ ctxDone' = TRUE
    /\ UNCHANGED <<brokerVars, outerVars, pipeVars, opts, idVars, handshakes, connVars, eofSeen, controlStream, csState, supVars,
                   pumpVars, dsVars, wfVars, written, errorfnCalls, panics>>

\* Wait() is called and blocks on c.ctx.Done().
WaitCall ==
    /\ waitPc = "none"
    /\ waitPc' = "waiting"
    /\ UNCHANGED <<clientVars, brokerVars, libVars>>

\* <-c.ctx.Done(): Wait returns once the engine context is cancelled.
WaitReturn ==
    /\ waitPc = "waiting"
    /\ ctxDone
    /\ waitPc' = "returned"
    /\ UNCHANGED <<clientVars, brokerVars, libVars>>

(***************************************************************************)
(* The StreamFrame codec.                                                  *)
(***************************************************************************)
\* The frames encoded: IDs, StreamIDs over the int64 range (0, 1, -1, the
\* largest and the smallest), and ChunkSizes over the uint32 range (0, 1024,
\* 2^31 - 1, 2^31, 2^32 - 1).
StreamIDs == {"", "a", "stream-1"}
StreamStreamIDs ==
    {<<0, 0, 0, 0>>, <<0, 0, 0, 1>>, <<65535, 65535, 65535, 65535>>,
     <<32767, 65535, 65535, 65535>>, <<32768, 0, 0, 0>>}
ChunkSizes ==
    {<<0, 0>>, <<0, 1024>>, <<32767, 65535>>, <<32768, 0>>, <<65535, 65535>>}

\* A zero-valued StreamFrame on a platform whose uint has k limbs.
ZeroStreamFrame(k) ==
    [ID |-> "", StreamID |-> Word(0, 4), ChunkSize |-> Word(0, k)]

\* No frame has been encoded.
CodecIdle ==
    /\ wordLimbs = 4
    /\ codecPc = "idle"
    /\ codecFrame = ZeroStreamFrame(4)
    /\ codecData = <<>>
    /\ codecOut = ZeroStreamFrame(4)

\* data, _ := encodeStreamFrame(f)
CodecEncode ==
    /\ codecPc = "idle"
    /\ codecPc' = "encoded"
    /\ codecData' = encodeStreamFrame(codecFrame)
    /\ UNCHANGED <<clientVars, brokerVars, waitPc, peerVars, wordLimbs, codecFrame,
                   codecOut>>

\* decodeStreamFrame(data, &frame.StreamFrame{})
CodecDecode ==
    /\ codecPc = "encoded"
    /\ codecPc' = "decoded"
    /\ codecOut' = decodeStreamFrame(codecData, ZeroStreamFrame(wordLimbs),
                                     wordLimbs)
    /\ UNCHANGED <<clientVars, brokerVars, waitPc, peerVars, wordLimbs, codecFrame,
                   codecData>>

(***************************************************************************)
(* core.Peer.                                                              *)
(***************************************************************************)
\* The tags a caller passes to SetObserveHandlerWriterTag.
WriterTags == {"", "w1", "w2"}

\* NewPeer: no writer tag, and Observe not called yet.
NewPeer ==
    /\ pOnceDone = FALSE
    /\ observeHandlerWriterTag = ""
    /\ pSetCalls = <<>>
    /\ pPc = "idle"
    /\ pAccepted = 0
    /\ pW = 0
    /\ pOut = <<>>
    /\ pHandles = <<>>
    /\ pErr = "none"

\* A Once that would run its function at every call.
OnceDoAlways(done) == TRUE

\* p.once.Do(f) runs f if no call of Do has run it before.
OnceDo(done) == ~done

\* SetObserveHandlerWriterTag(tag), from any goroutine at any time.
SetObserveHandlerWriterTag(tag) ==
    /\ Len(pSetCalls) < MaxSetCalls
    /\ pSetCalls' = Append(pSetCalls, tag)
    /\ observeHandlerWriterTag' =
            IF OnceDo(pOnceDone) THEN tag ELSE observeHandlerWriterTag
    /\ pOnceDone' = TRUE
    /\ UNCHANGED <<clientVars, brokerVars, waitPc, codecVars, pPc, pAccepted,
                   pW, pOut, pHandles, pErr>>

\* Observe(tag, observer): RequestObserve, then the loop of observing.
PeerObserve ==
    /\ pPc = "idle"
    /\ \E err \in {"nil", ErrNetwork} :
        IF err = "nil"
        THEN pPc' = "observing" /\ pErr' = pErr
        ELSE pPc' = "returned" /\ pErr' = err
    /\ UNCHANGED <<clientVars, brokerVars, waitPc, codecVars, pOnceDone,
                   observeHandlerWriterTag, pSetCalls, pAccepted, pW, pOut,
                   pHandles>>

\* r, err := p.conn.AcceptUniStream(context.Background())
PeerAccept ==
    /\ pPc = "observing"
    /\ \E err \in {"nil", ErrNetwork} :
        IF err = "nil"
        THEN /\ pAccepted < MaxInbound
             /\ pAccepted' = pAccepted + 1
             /\ pPc' = "accepted"
             /\ pErr' = pErr
        ELSE /\ pPc' = "returned"
             /\ pErr' = err
             /\ pAccepted' = pAccepted
    /\ UNCHANGED <<clientVars, brokerVars, waitPc, codecVars, pOnceDone,
                   observeHandlerWriterTag, pSetCalls, pW, pOut, pHandles>>

\* tagWriterFunc(tag, w) without an error: the header of tag is written to w.
TagWriter(out, w, tag) == [out EXCEPT ![w].data = Append(@, <<"tag", tag>>)]

\* Open(tag): OpenUniStream, then `return w, p.tagWriterFunc(tag, w)`.  The
\* stream after the call, for the three outcomes "openfail" (no stream),
\* "tagfail" (the stream, and the error of tagWriterFunc) and "ok".
Open(out, r, tag, o) ==
    CASE o = "openfail" -> out
      [] o = "tagfail" -> Append(out, [r |-> r, data |-> <<>>])
      [] OTHER -> TagWriter(Append(out, [r |-> r, data |-> <<>>]),
                            Len(out) + 1, tag)

\* The handler is called with reader r and writer w.
Handle(r, w) == Append(pHandles, [r |-> r, w |-> w, n |-> 0])

\* Lines 70-76 and 81-84: with a writer tag, w is opened by p.Open; without
\* one, w is io.Discard and the handler is called.
PeerOpen ==
    /\ pPc = "accepted"
    /\ IF observeHandlerWriterTag # ""
       THEN \E o \in {"openfail", "tagfail", "ok"} :
               /\ pOut' = Open(pOut, pAccepted, observeHandlerWriterTag, o)
               /\ IF o = "ok"
                  THEN /\ pW' = Len(pOut) + 1
                       /\ pPc' = "opened"
                       /\ pErr' = pErr
                  ELSE /\ pW' = pW
                       /\ pPc' = "returned"
                       /\ pErr' = ErrNetwork
               /\ UNCHANGED pHandles
       ELSE /\ pW' = 0
            /\ pPc' = "handling"
            /\ pHandles' = Handle(pAccepted, 0)
            /\ UNCHANGED <<pOut, pErr>>
    /\ UNCHANGED <<clientVars, brokerVars, waitPc, codecVars, pOnceDone,
                   observeHandlerWriterTag, pSetCalls, pAccepted>>

\* Lines 77-80 and 84: err = p.tagWriterFunc(p.observeHandlerWriterTag, w),
\* and the handler is called.
PeerTagWriter ==
    /\ pPc = "opened"
    /\ \E err \in {"nil", ErrNetwork} :
        IF err = "nil"
        THEN /\ pOut' = TagWriter(pOut, pW, observeHandlerWriterTag)
             /\ pPc' = "handling"
             /\ pHandles' = Handle(pAccepted, pW)
             /\ pErr' = pErr
        ELSE /\ pPc' = "returned"
             /\ pErr' = err
             /\ UNCHANGED <<pOut, pHandles>>
    /\ UNCHANGED <<clientVars, brokerVars, waitPc, codecVars, pOnceDone,
                   observeHandlerWriterTag, pSetCalls, pAccepted, pW>>

\* The observer writes a chunk to its writer: io.Discard drops it.
PeerHandleWrite ==
    /\ pPc = "handling"
    /\ pHandles[Len(pHandles)].n < HandlerLen
    /\ pHandles' = [pHandles EXCEPT ![Len(pHandles)].n = @ + 1]
    /\ pOut' = IF pW = 0 THEN pOut
               ELSE [pOut EXCEPT ![pW].data =
                        Append(@, <<"data", pHandles[Len(pHandles)].n + 1>>)]
    /\ UNCHANGED <<clientVars, brokerVars, waitPc, codecVars, pOnceDone,
                   observeHandlerWriterTag, pSetCalls, pPc, pAccepted, pW,
                   pErr>>

\* observer.Handle returns and the loop goes on.
PeerHandleReturn ==
    /\ pPc = "handling"
    /\ pPc' = "observing"
    /\ UNCHANGED <<clientVars, brokerVars, waitPc, codecVars, pOnceDone,
                   observeHandlerWriterTag, pSetCalls, pAccepted, pW, pOut,
                   pHandles, pErr>>

(***************************************************************************)
(* core.Broker.                                                            *)
(***************************************************************************)
\* run keeps one entry per tag in each map and every branch touches only the
\* entries of the tag it received: one tag shows all of it.
Tags == {"T"}
Conns == 1..NumConns

\* The chunks reader r delivers, in order, before its end.
Bytes(r) == [i \in 1..ReaderLen |-> 10 * r + i]

\* NewBroker: empty channels, and run started with two empty maps.
NewBroker ==
    /\ bCtxDone = FALSE
    /\ bRunning = TRUE
    /\ observers = <<>>
    /\ readers = <<>>
    /\ bReaders = <<>>
    /\ bStreams = <<>>
    /\ bCopies = <<>>
    /\ bObserveCalls = 0
    /\ bMatched = [t \in Tags |-> {}]
    /\ bBlocked = {}

\* m[k] = v in a Go map m.
MapSet(m, k, v) ==
    [x \in DOMAIN m \cup {k} |-> IF x = k THEN v ELSE m[x]]

\* The orders in which a range over the map vv can visit its keys.
RangeOrders(vv) ==
    {ord \in [1..Cardinality(vv) -> vv] :
        \A i, j \in 1..Cardinality(vv) : i # j => ord[i] # ord[j]}

\* A range that stops after its first opener although no OpenUniStream failed.
FanOutOpenedFirstOnly(ord, fail) ==
    SubSeq(ord, 1, IF fail = 0 THEN 1 ELSE fail - 1)

\* The range over vv in order ord, with OpenUniStream failing at position
\* fail (0: never): the openers appended to ws before the break.
FanOutOpened(ord, fail) ==
    IF fail = 0 THEN ord ELSE SubSeq(ord, 1, fail - 1)

\* The openers the range deleted from vv: the opened ones and the failed one.
FanOutDeleted(ord, fail) ==
    {ord[i] : i \in 1..(IF fail = 0 THEN Len(ord) ELSE fail)}

\* The streams opened on the connections of the sequence cs for tag.
NewStreams(cs, tag) ==
    [i \in 1..Len(cs) |-> [conn |-> cs[i], tag |-> tag, recv |-> <<>>]]

\* Close(): b.ctxCancel()
BrokerClose ==
    /\ ~bCtxDone
    /\ bCtxDone' = TRUE
    /\ UNCHANGED <<clientVars, outerVars, bBlocked, bRunning, observers, readers, bReaders,
                   bStreams, bCopies, bObserveCalls, bMatched>>

\* case <-b.ctx.Done(): return
RunCtxDone ==
    /\ bRunning
    /\ bCtxDone
    /\ bRunning' = FALSE
    /\ UNCHANGED <<clientVars, outerVars, bBlocked, bCtxDone, observers, readers, bReaders,
                   bStreams, bCopies, bObserveCalls, bMatched>>

\* Observe(tag, conn) sends on observerChan and run receives:
\* case o := <-b.observerChan
RunObserver(tag, conn) ==
    /\ bRunning
    /\ bObserveCalls < MaxObserves
    /\ bObserveCalls' = bObserveCalls + 1
    /\ bMatched' = [bMatched EXCEPT ![tag] = @ \ {conn}]
    /\ IF tag \in DOMAIN readers
       THEN \* a reader is in the map: open a stream and start a copy
            /\ \E opened \in BOOLEAN :
                IF opened
                THEN /\ bStreams' = bStreams \o NewStreams(<<conn>>, tag)
                     /\ bCopies' = Append(bCopies,
                            [src |-> readers[tag],
                             dsts |-> <<Len(bStreams) + 1>>,
                             st |-> "run", by |-> "observer",
                             obs |-> {conn}, openFailed |-> FALSE])
                ELSE UNCHANGED <<bStreams, bCopies>>
            /\ UNCHANGED observers
       ELSE \* no reader: store the observer
            /\ observers' = MapSet(observers, tag,
                    IF tag \in DOMAIN observers
                    THEN observers[tag] \cup {conn} ELSE {conn})
            /\ UNCHANGED <<bStreams, bCopies>>
    /\ UNCHANGED <<clientVars, outerVars, bBlocked, bCtxDone, bRunning, readers, bReaders>>

\* A run that would take every reader for the first of its tag.
DuplicateWriterNever(tag) == FALSE

\* _, ok := readers[r.tag]: an old reader is stored for the tag.
DuplicateWriter(tag) == tag \in DOMAIN readers

\* AcceptingStream sends a reader on readerChan and run receives:
\* case r := <-b.readerChan
RunReader(tag) ==
    /\ bRunning
    /\ Len(bReaders) < MaxReaders
    /\ LET r == Len(bReaders) + 1
           unobserved == /\ tag \notin DOMAIN readers
                         /\ \/ tag \notin DOMAIN observers
                            \/ observers[tag] = {}
       IN  IF tag \notin DOMAIN observers
           THEN /\ IF ~DuplicateWriter(tag)
                   THEN /\ readers' = MapSet(readers, tag, r)
                        /\ bReaders' = Append(bReaders,
                               [tag |-> tag, st |-> "parked", pos |-> 0,
                                unobserved |-> unobserved])
                   ELSE /\ readers' = readers
                        /\ bReaders' = Append(bReaders,
                               [tag |-> tag, st |-> "closed", pos |-> 0,
                                unobserved |-> unobserved])
                /\ UNCHANGED <<observers, bStreams, bCopies, bMatched>>
           ELSE \E ord \in RangeOrders(observers[tag]) :
                \E fail \in 0..Len(ord) :
                    /\ bStreams' = bStreams \o
                                   NewStreams(FanOutOpened(ord, fail), tag)
                    /\ observers' = [observers EXCEPT
                                       ![tag] = @ \ FanOutDeleted(ord, fail)]
                    /\ bCopies' = Append(bCopies,
                           [src |-> r,
                            dsts |-> [i \in 1..Len(FanOutOpened(ord, fail))
                                        |-> Len(bStreams) + i],
                            st |-> "run", by |-> "reader",
                            obs |-> observers[tag],
                            openFailed |-> fail # 0])
                    /\ bReaders' = Append(bReaders,
                           [tag |-> tag, st |-> "copying", pos |-> 0,
                            unobserved |-> unobserved])
                    /\ bMatched' = [bMatched EXCEPT
                                      ![tag] = @ \cup observers[tag]]
                    /\ readers' = readers
    /\ UNCHANGED <<clientVars, outerVars, bBlocked, bCtxDone, bRunning, bObserveCalls>>

\* The streams after chunk b was written to the first n writers of dsts.
WriteChunk(streams, dsts, n, b) ==
    [s \in DOMAIN streams |->
        IF \E i \in 1..n : dsts[i] = s
        THEN [streams[s] EXCEPT !.recv = Append(@, b)]
        ELSE streams[s]]

\* One round of io.Copy(dst, src) in copyWithLog task k: a Read of the
\* source, then the Write of the MultiWriter, which writes to its writers in
\* order and stops at the first error.  At the end of the source io.Copy
\* returns nil, so copyWithLog sends nothing on readEOFChan.
CopyRound(k) ==
    /\ bCopies[k].st = "run"
    /\ LET c == bCopies[k]
           r == c.src
       IN  IF bReaders[r].pos < ReaderLen
           THEN \E fail \in 0..Len(c.dsts) :
                /\ bReaders' = [bReaders EXCEPT ![r].pos = @ + 1]
                /\ bStreams' = WriteChunk(bStreams, c.dsts,
                        IF fail = 0 THEN Len(c.dsts) ELSE fail - 1,
                        Bytes(r)[bReaders[r].pos + 1])
                /\ bCopies' = [bCopies EXCEPT
                        ![k].st = IF fail = 0 THEN "run" ELSE "failed"]
           ELSE /\ bCopies' = [bCopies EXCEPT ![k].st = "eof"]
                /\ UNCHANGED <<bReaders, bStreams>>
    /\ UNCHANGED <<clientVars, outerVars, bBlocked, bCtxDone, bRunning, observers, readers,
                   bObserveCalls, bMatched>>

\* Observe(tag, conn) after run has returned: `b.observerChan <- item` has
\* no receiver and no other case, and the caller blocks.
ObserveBlocks(tag, conn) ==
    /\ ~bRunning
    /\ [call |-> "Observe", tag |-> tag, conn |-> conn] \notin bBlocked
    /\ bBlocked' = bBlocked \cup
                       {[call |-> "Observe", tag |-> tag, conn |-> conn]}
    /\ UNCHANGED <<clientVars, outerVars, bCtxDone, bRunning, observers,
                   readers, bReaders, bStreams, bCopies, bObserveCalls,
                   bMatched>>

\* AcceptingStream(conn) accepted a stream and drained its tag before the
\* context was cancelled, and reaches `b.readerChan <- taggedReader{...}`
\* after run has returned: the loop blocks, holding the reader.
AcceptingStreamBlocks(tag, conn) ==
    /\ ~bRunning
    /\ [call |-> "AcceptingStream", tag |-> tag, conn |-> conn] \notin bBlocked
    /\ bBlocked' = bBlocked \cup
            {[call |-> "AcceptingStream", tag |-> tag, conn |-> conn]}
    /\ UNCHANGED <<clientVars, outerVars, bCtxDone, bRunning, observers,
                   readers, bReaders, bStreams, bCopies, bObserveCalls,
                   bMatched>>

BrokerNext ==
    \/ BrokerClose
    \/ RunCtxDone
    \/ \E tag \in Tags, conn \in Conns : ObserveBlocks(tag, conn)
    \/ \E tag \in Tags, conn \in Conns : AcceptingStreamBlocks(tag, conn)
    \/ \E tag \in Tags, conn \in Conns : RunObserver(tag, conn)
    \/ \E tag \in Tags : RunReader(tag)
    \/ \E k \in DOMAIN bCopies : CopyRound(k)

\* The broker alone, beside an engine that was constructed and never used.
BrokerSpecInit ==
    /\ NewBroker
    /\ CodecIdle
    /\ NewPeer
    /\ NewClient
    /\ opts = [connectUntilSucceed |-> FALSE, nonBlockWrite |-> FALSE]
    /\ clientType = ClientTypeSource
    /\ observeDataTags = {}

BrokerSpec == BrokerSpecInit /\ [][BrokerNext]_vars

\* The copy tasks.
Copies == \E k \in DOMAIN bCopies : CopyRound(k)

\* The Go scheduler runs run and the copy tasks whenever they can take a
\* step; nothing is assumed of the peers that call Observe and open streams.
BrokerFairSpec == BrokerSpec /\ WF_vars(RunCtxDone) /\ WF_vars(Copies)

Supervisor ==
    SupStart \/ SupSelect \/ SupCtxDone \/ SupReconnect \/ SupBackoff

Pump ==
    \/ PumpOpenDataStream
    \/ PumpReadResult
    \/ HandlerReturn
    \/ PumpRecvFrame
    \/ PumpWriteFrame

Reader == \E d \in DOMAIN rdPc : ReaderRead(d)

ClientNext ==
    \/ ConnectCall
    \/ ConnectAttempt
    \/ SupStart
    \/ SupSelect
    \/ SupCtxDone
    \/ SupReconnect
    \/ SupBackoff
    \/ PumpOpenDataStream
    \/ PumpReadResult
    \/ HandlerWriteFrame
    \/ HandlerReturn
    \/ PumpRecvFrame
    \/ PumpWriteFrame
    \/ \E d \in DOMAIN rdPc : ReaderRead(d)
    \/ WriteFrame
    \/ Close

\* The engine of a stream function, with or without observed tags, beside a
\* broker that was constructed and never used.
ClientSpecInit ==
    /\ NewClient
    /\ NewBroker
    /\ CodecIdle
    /\ NewPeer
    /\ clientType = ClientTypeStreamFunction
    /\ observeDataTags \in {{}, {1}}

ClientSpec == ClientSpecInit /\ [][ClientNext]_vars

\* The engine without the traffic of frames: connecting, the failures of
\* the network, reconnecting, and the application changing the observed tags.
HandshakeNext ==
    \/ ConnectCall
    \/ ConnectAttempt
    \/ SupStart
    \/ SupSelect
    \/ SupCtxDone
    \/ SupReconnect
    \/ SupBackoff
    \/ PumpOpenDataStream
    \/ PumpReadResult
    \/ HandlerReturn
    \/ \E d \in DOMAIN rdPc : ReaderRead(d)
    \/ \E tags \in TagSets : SetObserveDataTags(tags)
    \/ Close

HandshakeSpecInit ==
    /\ NewClient
    /\ NewBroker
    /\ CodecIdle
    /\ NewPeer
    /\ opts.nonBlockWrite = FALSE

HandshakeSpec == HandshakeSpecInit /\ [][HandshakeNext]_vars

\* The engine of a stream function beside a goroutine that calls Wait, as
\* the main goroutine of a stream function does after Connect.
WaitNext ==
    \/ ClientNext
    \/ WaitCall
    \/ WaitReturn

\* Wait does not depend on the mode of WriteFrame: the blocking mode, the
\* default, is the one explored.
WaitSpecInit ==
    /\ NewClient
    /\ NewBroker
    /\ CodecIdle
    /\ NewPeer
    /\ clientType = ClientTypeStreamFunction
    /\ observeDataTags \in {{}, {1}}
    /\ opts.nonBlockWrite = FALSE

WaitSpec == WaitSpecInit /\ [][WaitNext]_vars

\* A source that pipes one reader through its engine.
PipeNext ==
    \/ ConnectCall
    \/ ConnectAttempt
    \/ SupStart
    \/ SupSelect
    \/ SupCtxDone
    \/ SupReconnect
    \/ SupBackoff
    \/ PumpOpenDataStream
    \/ PumpReadResult
    \/ HandlerReturn
    \/ PumpRecvFrame
    \/ PumpWriteFrame
    \/ \E d \in DOMAIN rdPc : ReaderRead(d)
    \/ PipeRequestStream
    \/ PipeWriteFrame
    \/ PipeWriteReturned
    \/ PipeCopy
    \/ Close

PipeSpecInit ==
    /\ NewClient
    /\ NewBroker
    /\ CodecIdle
    /\ NewPeer
    /\ clientType = ClientTypeSource
    /\ observeDataTags = {}

PipeSpec == PipeSpecInit /\ [][PipeNext]_vars

\* A Peer whose writer tag is set from one goroutine while another is in
\* Observe, beside an engine and a broker that are never used.
PeerNext ==
    \/ \E tag \in WriterTags : SetObserveHandlerWriterTag(tag)
    \/ PeerObserve
    \/ PeerAccept
    \/ PeerOpen
    \/ PeerTagWriter
    \/ PeerHandleWrite
    \/ PeerHandleReturn

PeerSpecInit ==
    /\ NewClient
    /\ NewBroker
    /\ CodecIdle
    /\ NewPeer
    /\ opts = [connectUntilSucceed |-> FALSE, nonBlockWrite |-> FALSE]
    /\ clientType = ClientTypeSource
    /\ observeDataTags = {}

PeerSpec == PeerSpecInit /\ [][PeerNext]_vars

\* A StreamFrame is encoded and the bytes are decoded into a zero-valued
\* frame, beside an engine and a broker that are never used.
CodecNext == CodecEncode \/ CodecDecode

CodecSpecInit ==
    /\ NewClient
    /\ NewBroker
    /\ opts = [connectUntilSucceed |-> FALSE, nonBlockWrite |-> FALSE]
    /\ clientType = ClientTypeSource
    /\ observeDataTags = {}
    /\ NewPeer
    /\ wordLimbs \in {2, 4}
    /\ codecPc = "idle"
    /\ codecFrame \in [ID : StreamIDs, StreamID : StreamStreamIDs,
                       ChunkSize : {ZeroExtend(c, wordLimbs) :
                                       c \in ChunkSizes}]
    /\ codecData = <<>>
    /\ codecOut = ZeroStreamFrame(wordLimbs)

CodecSpec == CodecSpecInit /\ [][CodecNext]_vars

\* The Go scheduler runs every goroutine that can take a step: the
\* supervisor, the pump and the reader goroutines.  Nothing is assumed of
\* the application or of the network.
ClientFairSpec ==
    ClientSpec /\ WF_vars(Supervisor) /\ WF_vars(Pump) /\ WF_vars(Reader)

\* The same of the goroutine blocked in Wait.
WaitFairSpec ==
    /\ WaitSpec
    /\ WF_vars(Supervisor) /\ WF_vars(Pump) /\ WF_vars(Reader)
    /\ WF_vars(WaitReturn)

(***************************************************************************)
(* Properties of the engine.                                               *)
(***************************************************************************)
\* The pump has stopped on an error other than io.EOF and the engine context
\* is not cancelled.
PumpFailed == pumpPc = "done" /\ pumpErr = ErrNetwork /\ ~ctxDone

\* C1: whenever the pump has stopped on an error other than EOF while the
\* engine context is not cancelled, reconnection is under way in every
\* interleaving: the supervisor has taken the signal and is reconnecting (or
\* has already started the next pump); it is never back waiting in its
\* select, where only a running pump could wake it for a reconnection.
C1_PumpErrorReconnects == PumpFailed => supPc # "select"

\* Once the supervisor waits in its select beside a failed pump, only the
\* cancellation of the context ends that state: no reconnection follows.
C1_StuckForever ==
    [][(PumpFailed /\ supPc = "select") =>
        (ctxDone' \/ (PumpFailed' /\ supPc' = "select"))]_vars

\* Frame f has been written to a data stream.
Written(f) == \E i \in DOMAIN written : written[i][1] = f

\* C2: in blocking mode no accepted frame is lost: every frame for which
\* WriteFrame returned nil has been written to a data stream or is still
\* held by the pump, which will write it.
C2_NoAcceptedFrameLost ==
    ~opts.nonBlockWrite =>
        \A f \in accepted : Written(f) \/ (pumpHeld = f /\ pumpPc = "writing")

\* C7: Connect returns the error of its first failed attempt without
\* retrying when connectUntilSucceed is false, and returns
\* ErrAuthenticateFailed at once whatever connectUntilSucceed is; with
\* connectUntilSucceed it goes on after any other error and never returns it.
C7_ConnectErrorPolicy ==
    LET n == Len(connErrs)
        returnedErr == connPc = "returned" /\ n > 0 /\ connRet = connErrs[n]
    IN  /\ ~opts.connectUntilSucceed => (n <= 1 /\ (n = 1 => returnedErr))
        /\ \A i \in 1..n :
             connErrs[i] = ErrAuthenticateFailed => (i = n /\ returnedErr)
        /\ opts.connectUntilSucceed =>
             /\ connRet # ErrNetwork
             /\ (n > 0 /\ connErrs[n] = ErrNetwork) =>
                  (connPc = "connecting" \/ connRet = "nil")

\* Connect went on after two network errors and then succeeded.
C7_Witness ==
    /\ opts.connectUntilSucceed
    /\ connErrs = <<ErrNetwork, ErrNetwork>>
    /\ connRet = "nil"

\* C8: when Connect has returned nil, the Handshake has been sent and the
\* Data Stream has been opened: a Data Stream exists.
C8_ConnectOpensDataStream == connRet = "nil" => Len(dsState) >= 1

\* The supervisor and the pump have exited.
Exited == supPc \in {"none", "exited"} /\ pumpPc \in {"none", "done"}

\* C9: after Close() the engine context is cancelled and the pump and the
\* supervisor eventually exit, in whatever state Close was called, also
\* inside the reconnection retry loop.  (The claim goes on: and the current
\* streams are closed, which the supervisor does on its way out.)
C9_CloseStopsEngine == closeCalled ~> (ctxDone /\ Exited)

\* A step of the supervisor taken inside its reconnect loop.
ReconnectLoopStep ==
    supPc \in {"reconnect", "backoff"} =>
        /\ supPc' \in {"reconnect", "backoff", "spawned", "exited"}
        /\ supPc' = "backoff" => supErr' = ErrNetwork
        /\ supPc' = "spawned" =>
              /\ supErr' = "nil"
              /\ Len(csState') = Len(csState) + 1
              /\ supCS' = Len(csState') /\ csState'[supCS'] = "open"
              /\ pumpsStarted' = pumpsStarted + 1
        /\ supPc' = "exited" =>
              /\ supErr' = ErrAuthenticateFailed
              /\ Len(csState') = Len(csState) + 1
              /\ csState'[Len(csState')] = "closed"

\* A supervisor that has exited opens no Control Stream and starts no pump.
ExitedIsFinal ==
    supPc = "exited" =>
        /\ supPc' = "exited"
        /\ Len(csState') = Len(csState)
        /\ pumpsStarted' = pumpsStarted

\* C11: in its reconnect loop the supervisor goes on attempting until an
\* attempt succeeds (it then holds the new stream and has started a pump);
\* it leaves the loop otherwise only after an attempt that failed with
\* ErrAuthenticateFailed, having closed the stream of that attempt, and once
\* it has exited no Control Stream is opened any more.
C11_ReconnectUntilSuccessOrAuthFailed ==
    /\ [][ReconnectLoopStep]_vars
    /\ [][ExitedIsFinal]_vars
    /\ (supPc = "backoff") ~> (supPc = "reconnect")

\* The supervisor failed twice on the network, then on the credential, and
\* exited with the stream of the last attempt closed.
C11_Witness ==
    /\ supPc = "exited"
    /\ supErr = ErrAuthenticateFailed
    /\ Len(csState) = 3
    /\ csState[3] = "closed"
    /\ ~ctxDone

\* In non-blocking mode no WriteFrame is ever blocked, no frame is both
\* accepted and dropped, and no dropped frame has been written.
NonBlockState ==
    opts.nonBlockWrite =>
        /\ wfPending = 0
        /\ accepted \cap dropped = {}
        /\ \A f \in dropped : ~Written(f)

\* In non-blocking mode a WriteFrame that returns nil has handed its frame
\* to the pump, which was waiting in its select and now holds the frame; one
\* that returns an error found no pump waiting and leaves the pump alone.
NonBlockStep ==
    opts.nonBlockWrite =>
        /\ \A f \in accepted' \ accepted :
              pumpPc = "loop" /\ pumpPc' = "writing" /\ pumpHeld' = f
        /\ \A f \in dropped' \ dropped :
              pumpPc # "loop" /\ pumpPc' = pumpPc /\ pumpHeld' = pumpHeld

\* C12: in non-blocking mode WriteFrame never blocks; it returns nil only if
\* the frame was handed to the pump, and otherwise returns an error and the
\* frame is dropped and never written to a stream.
C12_NonBlockWriteFrame == []NonBlockState /\ [][NonBlockStep]_vars

\* In non-blocking mode one frame was accepted and written and a later one
\* was dropped.
C12_Witness ==
    /\ opts.nonBlockWrite
    /\ \E f \in accepted : Written(f)
    /\ dropped # {}
    /\ nextFrame > MaxFrames

\* C13: frames passed to WriteFrame one after the other (the application
\* numbers them in the order of its calls, each call made after the one
\* before it returned) are written in that order, on one data stream or
\* across a reconnection on several.
C13_WriteOrder ==
    \A i, j \in DOMAIN written : i < j => written[i][1] < written[j][1]

\* Two frames were written in order on two data streams, the second after a
\* reconnection.
C13_Witness ==
    /\ Len(written) = 2
    /\ written[1][2] # written[2][2]
    /\ pumpsStarted >= 2

\* C14: while the application has not called SetObserveDataTags after
\* Connect, every Handshake the engine has sent, the first and those of the
\* reconnections, carries the Name, ClientID, ClientType and ObserveDataTags
\* of the first one.
C14_SameHandshake ==
    ~tagsSetAfterConnect =>
        \A i \in DOMAIN handshakes :
            /\ handshakes[i].Name = handshakes[1].Name
            /\ handshakes[i].ClientID = handshakes[1].ClientID
            /\ handshakes[i].ClientType = handshakes[1].ClientType
            /\ handshakes[i].ObserveDataTags = handshakes[1].ObserveDataTags

\* Three handshakes were sent, the last two after read errors and
\* reconnections, with tags that were set before Connect.
C14_Witness ==
    /\ ~tagsSetAfterConnect
    /\ Len(handshakes) = 3
    /\ observeDataTags = {1, 2}
    /\ handshakes[3].ID # handshakes[1].ID
    /\ pumpsStarted = 3

\* C15: writing goes on while a handler executes: a handler that calls the
\* blocking WriteFrame of its own engine has its frame taken by the pump and
\* returns.
C15_HandlerWriteReturns == (pumpPc = "hwrite") ~> (pumpPc # "hwrite")

\* No step of the engine or of the application releases a handler that is
\* blocked in WriteFrame: the pump is the only receiver of its channel.
C15_BlockedForever == [][pumpPc = "hwrite" => pumpPc' = "hwrite"]_vars

\* The step in which a handler panics: the error handler is invoked once,
\* the context and the supervisor are left alone (no cancellation, no
\* reconnection), and the same pump is back in its loop on its data stream.
PanicStep ==
    panics' # panics =>
        /\ pumpPc = "handling" /\ pumpPc' = "loop"
        /\ errorfnCalls' = errorfnCalls + 1
        /\ ctxDone' = ctxDone /\ eofSeen' = eofSeen
        /\ supPc' = supPc
        /\ pumpDS' = pumpDS /\ pumpsStarted' = pumpsStarted
        /\ dsState' = dsState /\ pumpErr' = pumpErr

\* C16: a panic of a frame handler is recovered: the error handler is
\* invoked once with it, no reconnection is signalled, the engine context
\* is not cancelled, and the same pump goes on with later reads and writes.
C16_PanicRecovered == [][PanicStep]_vars

\* After a handler panicked, the first pump is writing a frame; the panic
\* is the only error reported.
C16_Witness ==
    /\ panics = 1
    /\ errorfnCalls = 1
    /\ pumpsStarted = 1
    /\ pumpPc = "writing"
    /\ ~ctxDone

\* The data streams of the engine that are open.
OpenDataStreams == {d \in DOMAIN dsState : dsState[d] = "open"}

\* C19: the engine has one open Data Stream at a time: when it has obtained
\* a new one, by reconnection or by RequestStream, the one it held before
\* is closed.
C19_OneDataStream == Cardinality(OpenDataStreams) <= 1

\* C20: pipe hands its DataFrame to WriteFrame only after RequestStream has
\* returned an opened stream; the frame is Streamed and its payload encodes
\* the StreamFrame of that stream's ID and StreamID with ChunkSize 1024;
\* bytes are copied only after WriteFrame has succeeded; and when
\* RequestStream or WriteFrame fails, pipe has returned the error, with no
\* DataFrame written after a failed RequestStream and no byte copied after
\* a failed WriteFrame.
C20_PipeOrder ==
    /\ pipeFrame # <<>> =>
          /\ pipeDS \in DOMAIN dsState
          /\ pipeFrame.frame.Streamed
          /\ pipeFrame.frame.Payload =
                encodeStreamFrame([ID |-> dsID[pipeDS],
                                   StreamID |-> Word(pipeDS, 4),
                                   ChunkSize |-> Word(1024, 4)])
    /\ pipeCopied > 0 => (pipeFrame # <<>> /\ pipeFrame.f \in accepted)
    /\ pipeFailed = "RequestStream" =>
          /\ pipePc = "returned" /\ pipeRet \in {ErrNetwork, EOF}
          /\ pipeFrame = <<>> /\ pipeCopied = 0
    /\ pipeFailed = "WriteFrame" =>
          /\ pipePc = "returned" /\ pipeRet = ErrLostConnection
          /\ pipeFrame.f \in dropped /\ pipeCopied = 0

\* c.processor, the handler of a stream function, is being invoked.
ProcessorInvoked ==
    pumpPc \in {"handling", "hwrite"} /\ handleFrame(pumpFrame) = "processor"

HeldOnOpenStream ==
    pumpHeld # 0 =>
        /\ pumpDS \in DOMAIN dsState
        /\ dsState[pumpDS] = "open"

\* A frame is transmitted: it is the frame the pump took from the write
\* queue, and it goes to the open data stream of the pump, to no other stream.
WriteStep ==
    written' # written =>
        /\ pumpHeld \in accepted
        /\ pumpDS \in DOMAIN dsState /\ dsState[pumpDS] = "open"
        /\ written' = Append(written, <<pumpHeld, pumpDS>>)

\* C25: a frame passed to WriteFrame is written to a Data Stream only, one
\* whose Handshake succeeded, never to the Control Stream; while no Data
\* Stream is open no frame is taken from the write queue or transmitted.
C25_WritesOnDataStreamOnly == []HeldOnOpenStream /\ [][WriteStep]_vars

\* After a reconnection the second pump holds a frame for its data stream,
\* the first frame having been written to the first data stream.
C25_Witness ==
    /\ written = <<<<1, 1>>>>
    /\ pumpHeld = 2
    /\ pumpDS = 2
    /\ pumpPc = "writing"

\* The supervisor has exited on a reconnection attempt that failed with
\* ErrAuthenticateFailed.
AuthFailedExit == supPc = "exited" /\ supErr = ErrAuthenticateFailed

\* C28: when the supervisor exits because a reconnection attempt failed with
\* ErrAuthenticateFailed, the engine context is cancelled (so that Wait()
\* returns and a blocking WriteFrame does not block forever).
C28_AuthFailedCancels == AuthFailedExit => ctxDone

\* After that exit, as long as the application does not call Close, Wait
\* stays blocked and so does a blocked WriteFrame: no pump is left to take
\* its frame.
C28_StaysBlocked ==
    [][(AuthFailedExit /\ ~ctxDone /\ ~closeCalled') =>
          /\ ~ctxDone'
          /\ waitPc = "waiting" => waitPc' = "waiting"
          /\ wfPending # 0 => wfPending' = wfPending]_vars

\* The Control Streams the engine opened and has not closed.
UnclosedControlStreams == {cs \in DOMAIN csState : csState[cs] = "open"}

\* C30: at most one Control Stream opened by the engine is left unclosed at
\* any time, and once the supervisor has exited every Control Stream it ever
\* opened is closed.
C30_OneControlStream ==
    /\ Cardinality(UnclosedControlStreams) <= 1
    /\ supPc = "exited" => UnclosedControlStreams = {}

\* The pump that called readFrame for data stream d has returned from
\* processStream: nothing receives from the readChan of d any more.
PumpExited(d) == pumpDS # d \/ pumpPc = "done"

\* A reader goroutine that has not returned although its pump has.
ReaderLeftBehind ==
    \E d \in DOMAIN rdPc : PumpExited(d) /\ rdPc[d] # "done"

\* A reader goroutine blocked in `readChan <- readResult{f, err}` after its
\* pump has returned.
ReaderBlockedSending ==
    \E d \in DOMAIN rdPc : PumpExited(d) /\ rdPc[d] \in {"frame", "err", "eof"}

\* C31: the reader goroutine readFrame started for a data stream terminates
\* after the pump that owns it has exited, whatever made the pump exit: no
\* reader goroutine is left behind for ever.
C31_ReaderTerminates == ReaderLeftBehind ~> ~ReaderLeftBehind

\* Once the pump has returned, a reader goroutine blocked sending its result
\* stays blocked: no step of the engine receives from its channel.
C31_ReaderBlockedForever ==
    [][\A d \in DOMAIN rdPc :
          PumpExited(d) /\ rdPc[d] \in {"frame", "err", "eof"}
              => PumpExited(d)' /\ rdPc'[d] = rdPc[d]]_vars

\* A call of RequestStream in which openDataStream fails.
RequestStreamFails == pipePc = "idle" /\ pipeFailed' = "RequestStream"

\* A failed call returns the error with a nil stream, and neither the
\* supervisor nor the engine context hears of it: the step C32 is about.
RequestStreamFailure ==
    RequestStreamFails =>
        /\ pipePc' = "returned"
        /\ pipeRet' \in {ErrNetwork, EOF}
        /\ pipeDS' = 0
        /\ UNCHANGED <<dsState, supPc, ctxDone>>

\* C32: RequestStream reports every failure of opening the data stream as a
\* returned error with a nil stream, io.EOF included; it never dereferences
\* a stream that was not opened, and the failure neither signals
\* reconnection nor cancels the engine context.
C32_RequestStreamReturnsError == [][RequestStreamFailure]_vars

\* The part of C32 that is not about io.EOF: a failed RequestStream leaves
\* the supervisor and the engine context alone and opens no data stream, and
\* an error other than io.EOF is returned.
C32_FailureStaysLocal ==
    [][RequestStreamFails =>
          /\ UNCHANGED <<dsState, supPc, ctxDone, pipeDS>>
          /\ pipePc' = "returned" <=> pipeRet' = ErrNetwork
          /\ pipePc' \in {"returned", "panicked"}]_vars

\* C10: once an operation of the pump returned io.EOF the engine context is
\* cancelled, no Control Stream is opened and no pump is started any more,
\* and the supervisor closes the current Control Stream and exits.
C10_EOFIsFatal ==
    /\ [](eofSeen => ctxDone)
    /\ [][eofSeen => /\ Len(csState') = Len(csState)
                     /\ pumpsStarted' = pumpsStarted]_vars
    /\ eofSeen ~> (supPc = "exited" /\ csState[controlStream] = "closed")

\* A pump read io.EOF after a reconnection, and the supervisor has exited.
C10_Witness ==
    /\ eofSeen
    /\ pumpErr = EOF
    /\ pumpsStarted >= 2
    /\ supPc = "exited"
    /\ csState[controlStream] = "closed"

(***************************************************************************)
(* Properties of the broker.                                               *)
(***************************************************************************)
\* The connections registered for tag t.
Registered(t) == IF t \in DOMAIN observers THEN observers[t] ELSE {}

\* s is a prefix of t.
IsPrefix(s, t) == Len(s) <= Len(t) /\ SubSeq(t, 1, Len(s)) = s

\* C3: when a reader arrives for a tag with N >= 1 registered observers and
\* every OpenUniStream succeeds, the broker opens exactly one uni-stream on
\* each of the N observers; each of these streams receives the chunks of the
\* reader in the reader's order, and all of them once the copy has reached
\* the end of the reader.
C3_FanOutFidelity ==
    \A k \in DOMAIN bCopies :
        LET c == bCopies[k]
        IN  (c.by = "reader" /\ ~c.openFailed /\ c.obs # {}) =>
              /\ Len(c.dsts) = Cardinality(c.obs)
              /\ \A o \in c.obs :
                   Cardinality({i \in DOMAIN c.dsts :
                                  bStreams[c.dsts[i]].conn = o}) = 1
              /\ \A i \in DOMAIN c.dsts :
                   /\ IsPrefix(bStreams[c.dsts[i]].recv, Bytes(c.src))
                   /\ c.st = "eof" => bStreams[c.dsts[i]].recv = Bytes(c.src)

\* A fan-out to two observers has copied its reader to the end.
C3_Witness ==
    \E k \in DOMAIN bCopies :
        /\ bCopies[k].by = "reader"
        /\ ~bCopies[k].openFailed
        /\ Cardinality(bCopies[k].obs) = 2
        /\ bCopies[k].st = "eof"

\* C4: observers are one-shot: a connection that was registered for tag T
\* when a reader for T was matched is not registered for T any more, unless
\* it has called Observe(T) again since (so a later reader opens no stream on
\* it).
C4_ObserversOneShot == \A t \in Tags : bMatched[t] \cap Registered(t) = {}

\* C5: a reader that arrived when no observer was registered for its tag and
\* no reader was parked for it is parked, and is read only by a copy to a
\* connection that observed the tag afterwards.
C5_UnobservedReaderParked ==
    \A r \in DOMAIN bReaders :
        bReaders[r].unobserved =>
            /\ bReaders[r].st = "parked"
            /\ bReaders[r].pos > 0 =>
                 \E k \in DOMAIN bCopies :
                    bCopies[k].src = r /\ bCopies[k].by = "observer"

\* C6: a reader that was matched to an arriving observer (the OpenUniStream
\* succeeded and the copy started) is no longer parked for its tag.
C6_MatchedReaderRemoved ==
    \A k \in DOMAIN bCopies :
        bCopies[k].by = "observer" =>
            \A t \in DOMAIN readers : readers[t] # bCopies[k].src

\* A copy has reached the end of a reader that is in the map readers.
CompletedCopyOfParked ==
    \E k \in DOMAIN bCopies :
        /\ bCopies[k].st = "eof"
        /\ bReaders[bCopies[k].src].tag \in DOMAIN readers
        /\ readers[bReaders[bCopies[k].src].tag] = bCopies[k].src

\* C17: when a copy has reached the end of its reader, the tag is sent on
\* the EOF channel and run, as long as it runs, deletes the entry of the
\* reader: no completed copy leaves its reader in the map readers.
C17_CopyEndUnparks ==
    CompletedCopyOfParked ~> (~CompletedCopyOfParked \/ ~bRunning)

\* No step of the broker or of its peers removes the reader of a completed
\* copy from the map readers.
C17_NeverUnparked ==
    [][CompletedCopyOfParked => CompletedCopyOfParked']_vars

\* The readers of tag t that are parked.
Parked(t) ==
    {r \in DOMAIN bReaders : bReaders[r].tag = t /\ bReaders[r].st = "parked"}

\* The step in which a reader arrives for a tag that has a parked reader and
\* no registered observer: the new reader is closed, no copy is started, and
\* the map readers and the parked reader are as they were.
DuplicateReaderStep ==
    \A t \in Tags :
        (/\ Len(bReaders') = Len(bReaders) + 1
         /\ bReaders'[Len(bReaders')].tag = t
         /\ t \in DOMAIN readers
         /\ Registered(t) = {}) =>
            /\ bReaders'[Len(bReaders')].st = "closed"
            /\ readers' = readers
            /\ bReaders'[readers[t]] = bReaders[readers[t]]
            /\ bReaders[readers[t]].st = "parked"
            /\ bCopies' = bCopies
            /\ bStreams' = bStreams

\* C18: the broker parks at most one reader per tag: a reader that arrives
\* for a tag while another is parked for it and no observer is registered
\* is closed, and the parked reader stays parked, unchanged and unclosed.
C18_OneParkedReader ==
    /\ [](\A t \in Tags : Cardinality(Parked(t)) <= 1)
    /\ [][DuplicateReaderStep]_vars

\* A second reader was closed while the first one is parked and unread.
C18_Witness ==
    /\ Len(bReaders) = 2
    /\ bReaders[1].st = "parked" /\ bReaders[1].pos = 0
    /\ bReaders[2].st = "closed"
    /\ readers = [t \in Tags |-> 1]
(***************************************************************************)
(* Properties of the codec.                                                *)
(***************************************************************************)
\* C23: a StreamFrame with any ID, any int64 StreamID and any ChunkSize of
\* the unsigned 32-bit range, encoded and then decoded into a zero-valued
\* frame, comes back equal in its three fields.
C23_RoundTrip == codecPc = "decoded" => codecOut = codecFrame

\* The frames whose ChunkSize is below 2^31, and all frames where uint has
\* 32 bits, do come back equal.
C23_SmallRoundTrip ==
    (/\ codecPc = "decoded"
     /\ \/ wordLimbs = 2
        \/ uint32(codecFrame.ChunkSize)[1] < Limb \div 2) =>
        codecOut = codecFrame

(***************************************************************************)
(* Properties of the Peer.                                                 *)
(***************************************************************************)
\* A call of SetObserveHandlerWriterTag: the first one sets the writer tag
\* to its argument, every later one leaves the writer tag as it is.
SetTagStep ==
    Len(pSetCalls') > Len(pSetCalls) =>
        observeHandlerWriterTag' =
            IF pSetCalls = <<>> THEN pSetCalls'[1]
            ELSE observeHandlerWriterTag

\* While the writer tag is empty, no outbound uni-stream has been opened and
\* every invocation of the handler received the discarding writer.
NoTagNoOutput ==
    observeHandlerWriterTag = "" =>
        /\ pOut = <<>>
        /\ \A i \in DOMAIN pHandles : pHandles[i].w = 0

\* C24: SetObserveHandlerWriterTag takes effect only on its first call; and
\* while no non-empty writer tag is set, every handler invocation in Observe
\* receives a discarding writer and no outbound uni-stream is opened.
C24_WriterTagOnce == [][SetTagStep]_vars /\ []NoTagNoOutput

\* The first call passed the empty tag and the second "w1": the tag is still
\* empty, and the handler wrote to discarding writers for two inbound streams.
C24_Witness ==
    /\ pSetCalls = <<"", "w1">>
    /\ observeHandlerWriterTag = ""
    /\ Len(pHandles) = 2
    /\ pHandles[2].n = 1
    /\ pOut = <<>>

\* The headers written to outbound stream w.
Headers(w) == {k \in DOMAIN pOut[w].data : pOut[w].data[k][1] = "tag"}

\* C26: for each inbound uni-stream whose handler was given an outbound
\* stream, the peer opened exactly one outbound uni-stream and wrote the tag
\* header on it exactly once, ahead of every byte of the handler.
C26_OneStreamOneHeader ==
    \A i \in DOMAIN pHandles :
        pHandles[i].w # 0 =>
            /\ Cardinality({j \in DOMAIN pOut :
                              pOut[j].r = pHandles[i].r}) = 1
            /\ Cardinality(Headers(pHandles[i].w)) = 1
            /\ pOut[pHandles[i].w].data[1][1] = "tag"

\* Every outbound stream given to a handler carries the tag header twice.
C26_HeaderTwice ==
    \A i \in DOMAIN pHandles :
        pHandles[i].w # 0 =>
            /\ Cardinality(Headers(pHandles[i].w)) = 2
            /\ Headers(pHandles[i].w) = {1, 2}

\* C27: no reader is the source of two copy tasks: the copyWithLog tasks
\* started so far read from different readers.
C27_OneCopyPerReader ==
    \A k1, k2 \in DOMAIN bCopies :
        k1 # k2 => bCopies[k1].src # bCopies[k2].src

\* C29: after Close() every caller blocked on the broker (an Observe call,
\* an AcceptingStream loop holding an accepted reader, a copy task reporting
\* the end of its reader) eventually returns.
C29_NoCallerBlockedForever == (bCtxDone /\ bBlocked # {}) ~> (bBlocked = {})

\* No step of the broker or of its peers releases a caller that is blocked
\* sending to the supervisor task.
C29_BlockedForever == [][bBlocked \subseteq bBlocked']_vars


Init ==
    /\ NewClient
    /\ NewBroker
    /\ NewPeer
    /\ wordLimbs \in {2, 4}
    /\ codecPc = "idle"
    /\ codecFrame \in [ID : StreamIDs, StreamID : StreamStreamIDs,
                       ChunkSize : {ZeroExtend(c, wordLimbs) :
                                       c \in ChunkSizes}]
    /\ codecData = <<>>
    /\ codecOut = ZeroStreamFrame(wordLimbs)

Next ==
    ClientNext \/ HandshakeNext \/ PipeNext \/ WaitNext \/ CodecNext
        \/ PeerNext \/ BrokerNext

Spec == Init /\ [][Next]_vars
=============================================================================
